---- MODULE Spec2Model ----
(***************************************************************************)
(* Counter Project backend (src/index.js): an Express API over one lowdb   *)
(* JSON document {counter, history, deletedHistory}.                       *)
(*                                                                         *)
(* Every route handler awaits initDb() (db.read(), which replaces db.data  *)
(* by the parsed file), changes db.data synchronously, awaits db.write()   *)
(* (which serialises db.data when it is called and replaces the file       *)
(* later) and then answers.  A handler is suspended only inside db.read()  *)
(* and db.write().                                                         *)
(*                                                                         *)
(* Numbers are JavaScript numbers.  A finite number n is held as the       *)
(* integer 2n (field h, "halves"), so that 2.5 is representable; the       *)
(* non-finite values and JSON null are separate kinds.  Numbers next to    *)
(* 2^53, where a double stops holding every integer, are held by their     *)
(* distance to 2^53 (kinds "big" and "negbig").                            *)
(***************************************************************************)
EXTENDS Integers, Sequences, FiniteSets

\* ---------------------------------------------------------------- bounds
\* uuidv4() is called at most MaxEntries times.
MaxEntries == 2
\* |counter| stays within MaxCounter (the guard of the counter routes).
MaxCounter == 1
\* Date.now() takes the values 0..MaxClock.
MaxClock == 1
\* uuidv4() calls while requests overlap.
MaxRaceEntries == 1

\* ---------------------------------------------------------------- numbers
Fin(n) == [k |-> "fin", h |-> n]
PosInf == [k |-> "inf", h |-> 1]
NegInf == [k |-> "inf", h |-> -1]
NaN == [k |-> "nan", h |-> 0]
Null == [k |-> "null", h |-> 0]
Zero == Fin(0)
One == Fin(2)

\* 2^53 + n/2 and -2^53 + n/2, for n small against 2^52.
Big(n) == [k |-> "big", h |-> n]
NegBig(n) == [k |-> "negbig", h |-> n]
\* A number of magnitude 2^54 or more: not followed further.
Far(sign) == [k |-> "far", h |-> sign]

\* The multiple of q nearest to n; a tie goes to the multiple of 2q (the
\* even significand).
RoundTo(n, q) ==
    LET r == n % q
        down == n - r
    IN  IF r = 0 THEN n
        ELSE IF 2 * r < q THEN down
        ELSE IF 2 * r > q THEN down + q
        ELSE IF down % (2 * q) = 0 THEN down ELSE down + q

\* The double nearest to 2^53 + n/2: doubles are 2 apart from 2^53 on and
\* 1 apart below it.
RoundBig(n) == IF n >= 0 THEN Big(RoundTo(n, 4)) ELSE Big(RoundTo(n, 2))

\* ToNumber(null) is 0.
ToNumber(x) == IF x.k = "null" THEN Zero ELSE x

Neg(x) ==
    CASE x.k \in {"fin", "inf", "far"} -> [x EXCEPT !.h = -x.h]
      [] x.k = "big" -> NegBig(-x.h)
      [] x.k = "negbig" -> Big(-x.h)
      [] OTHER -> x

\* x + y for numbers of which at least one is next to 2^53 or beyond.
AddBig(a, b) ==
    CASE a.k = "far" \/ b.k = "far" -> IF a.k = "far" THEN a ELSE b
      [] a.k = "big" /\ b.k = "big" -> Far(1)
      [] a.k = "negbig" /\ b.k = "negbig" -> Far(-1)
      [] a.k = "big" /\ b.k = "negbig" -> Fin(a.h + b.h)
      [] a.k = "negbig" /\ b.k = "big" -> Fin(a.h + b.h)
      [] a.k = "big" /\ b.k = "fin" -> RoundBig(a.h + b.h)
      [] a.k = "fin" /\ b.k = "big" -> RoundBig(a.h + b.h)
      [] a.k = "negbig" /\ b.k = "fin" -> Neg(RoundBig(-(a.h + b.h)))
      [] a.k = "fin" /\ b.k = "negbig" -> Neg(RoundBig(-(a.h + b.h)))

\* JavaScript x + y on numbers (and null).
AddNum(x, y) ==
    LET a == ToNumber(x)
        b == ToNumber(y)
    IN  IF a.k = "nan" \/ b.k = "nan" THEN NaN
        ELSE IF a.k = "inf" /\ b.k = "inf" THEN (IF a.h = b.h THEN a ELSE NaN)
        ELSE IF a.k = "inf" THEN a
        ELSE IF b.k = "inf" THEN b
        ELSE IF a.k = "fin" /\ b.k = "fin" THEN Fin(a.h + b.h)
        ELSE AddBig(a, b)

\* JavaScript x - y.
SubNum(x, y) == AddNum(x, Neg(ToNumber(y)))

\* JSON.stringify followed by JSON.parse: NaN and the infinities become null.
JsonNum(x) == IF x.k \in {"inf", "nan"} THEN Null ELSE x

\* ---------------------------------------------------------------- entries
NoEntry == [id |-> 0, value |-> Null, savedAt |-> 0]

JsonEntry(e) == [e EXCEPT !.value = JsonNum(e.value)]

JsonList(s) == [i \in 1..Len(s) |-> JsonEntry(s[i])]

\* Array.prototype.findIndex((item) => item.id === id); 0 stands for -1.
FindIndex(s, id) ==
    IF \E i \in 1..Len(s) : s[i].id = id
    THEN CHOOSE i \in 1..Len(s) : s[i].id = id /\ \A j \in 1..(i - 1) : s[j].id # id
    ELSE 0

\* The array left by splice(idx, 1).
SpliceOut(s, idx) == [i \in 1..(Len(s) - 1) |-> IF i < idx THEN s[i] ELSE s[i + 1]]

\* The array left by pop().
PopRest(s) == SubSeq(s, 1, Len(s) - 1)

\* ---------------------------------------------------------------- document
\* hasDeleted is Array.isArray(deletedHistory); a document of the version
\* before deletedHistory existed has none.
defaultData == [counter |-> Zero, history |-> <<>>, deletedHistory |-> <<>>, hasDeleted |-> TRUE]

legacyData == [counter |-> Zero, history |-> <<>>, deletedHistory |-> <<>>, hasDeleted |-> FALSE]

NoFile == [exists |-> FALSE, doc |-> defaultData]

\* JSONFile.write: the text of the file after db.write() of document d.
Serialize(d) ==
    [exists |-> TRUE,
     doc |-> [counter |-> JsonNum(d.counter),
              history |-> JsonList(d.history),
              deletedHistory |-> JsonList(d.deletedHistory),
              hasDeleted |-> d.hasDeleted]]

\* Low.read: db.data becomes the parsed file; with no file db.data is kept.
\* db.read() that reads the file only while db.data is still the default
\* (the file is read once, at the first request).
lowRead_Once(file, d) ==
    IF file.exists /\ d = defaultData
    THEN file.doc ELSE d

\* db.read() that never replaces db.data by the file.
lowRead_Cached(file, d) == d

lowRead(file, d) == IF file.exists THEN file.doc ELSE d

\* initDb without the Array.isArray test.
needsUpgrade_Never(d) == FALSE

\* initDb, lines 49-50.
needsUpgrade(d) == ~d.hasDeleted

upgrade(d) == [d EXCEPT !.deletedHistory = <<>>, !.hasDeleted = TRUE]

\* ---------------------------------------------------------------- requests
\* req.body.amount: t is the result of typeof, n the value when it is a number.
Absent == [t |-> "undefined", n |-> Zero]
StringAmount == [t |-> "string", n |-> Zero]
NullAmount == [t |-> "object", n |-> Zero]
NumberAmount(x) == [t |-> "number", n |-> x]

\* typeof req.body.amount === 'number' ? req.body.amount : 1
amountOf(a) == IF a.t = "number" THEN a.n ELSE One

Request(o, a, i) == [op |-> o, amount |-> a, id |-> i]

NoRequest == Request("none", Absent, 0)

\* ---------------------------------------------------------------- replies
\* res.status(s).json(...) / send(): the body is JSON text.
Reply(s, kd, v, e, l) ==
    [status |-> s, kind |-> kd, value |-> JsonNum(v), entry |-> JsonEntry(e), list |-> JsonList(l)]

NoReply == Reply(0, "none", Null, NoEntry, <<>>)

\* A TypeError thrown inside the async handler: no response is sent.
Threw == Reply(0, "threw", Null, NoEntry, <<>>)

\* What a handler does between initDb() and its response: the new db.data,
\* whether it calls db.write(), and its response (for the counter routes the
\* value is read from db.data after the write, see lateReply).
Outcome(d, w, r) == [data |-> d, write |-> w, reply |-> r]

\* ---------------------------------------------------------------- handlers
getCounter(d) == Outcome(d, FALSE, Reply(200, "value", d.counter, NoEntry, <<>>))

\* increment that also brings the newest snapshot up to the new counter.
increment_Live(d, a) ==
    LET c == AddNum(d.counter, amountOf(a))
        n == Len(d.history)
        h == IF n = 0 THEN d.history ELSE [d.history EXCEPT ![n].value = c]
    IN  Outcome([d EXCEPT !.counter = c, !.history = h], TRUE,
                Reply(200, "value", c, NoEntry, <<>>))

increment(d, a) ==
    LET n == [d EXCEPT !.counter = AddNum(d.counter, amountOf(a))]
    IN  Outcome(n, TRUE, Reply(200, "value", n.counter, NoEntry, <<>>))

\* decrement pasted from increment with the += left in.
decrement_Plus(d, a) ==
    LET n == [d EXCEPT !.counter = AddNum(d.counter, amountOf(a))]
    IN  Outcome(n, TRUE, Reply(200, "value", n.counter, NoEntry, <<>>))

decrement(d, a) ==
    LET n == [d EXCEPT !.counter = SubNum(d.counter, amountOf(a))]
    IN  Outcome(n, TRUE, Reply(200, "value", n.counter, NoEntry, <<>>))

\* resetCounter without its db.write().
resetCounter_NoWrite(d) ==
    LET n == [d EXCEPT !.counter = Zero]
    IN  Outcome(n, FALSE, Reply(200, "value", n.counter, NoEntry, <<>>))

resetCounter(d) ==
    LET n == [d EXCEPT !.counter = Zero]
    IN  Outcome(n, TRUE, Reply(200, "value", n.counter, NoEntry, <<>>))

\* saveSnapshot with unshift in place of push (newest first).
saveSnapshot_Unshift(d, id, now) ==
    LET record == [id |-> id, value |-> d.counter, savedAt |-> now]
    IN  Outcome([d EXCEPT !.history = <<record>> \o d.history], TRUE,
                Reply(201, "entry", Null, record, <<>>))

saveSnapshot(d, id, now) ==
    LET record == [id |-> id, value |-> d.counter, savedAt |-> now]
    IN  Outcome([d EXCEPT !.history = Append(d.history, record)], TRUE,
                Reply(201, "entry", Null, record, <<>>))

listHistory(d) == Outcome(d, FALSE, Reply(200, "list", Null, NoEntry, d.history))

\* deleteOne without the splice: the entry is pushed and stays in history.
deleteOne_NoSplice(d, id) ==
    LET idx == FindIndex(d.history, id)
    IN  IF idx = 0 THEN Outcome(d, FALSE, Reply(204, "empty", Null, NoEntry, <<>>))
        ELSE Outcome([d EXCEPT !.deletedHistory = Append(d.deletedHistory, d.history[idx])],
                     TRUE, Reply(204, "empty", Null, NoEntry, <<>>))

\* deleteOne with unshift in place of push.
deleteOne_Unshift(d, id) ==
    LET idx == FindIndex(d.history, id)
    IN  IF idx = 0 THEN Outcome(d, FALSE, Reply(204, "empty", Null, NoEntry, <<>>))
        ELSE Outcome([d EXCEPT !.history = SpliceOut(d.history, idx),
                               !.deletedHistory = <<d.history[idx]>> \o d.deletedHistory],
                     TRUE, Reply(204, "empty", Null, NoEntry, <<>>))

\* deleteOne as a hard delete: filter, nothing is pushed.
deleteOne_Filter(d, id) ==
    LET idx == FindIndex(d.history, id)
    IN  IF idx = 0 THEN Outcome(d, FALSE, Reply(204, "empty", Null, NoEntry, <<>>))
        ELSE Outcome([d EXCEPT !.history = SpliceOut(d.history, idx)],
                     TRUE, Reply(204, "empty", Null, NoEntry, <<>>))

\* deleteOne without the idx !== -1 test: splice(-1, 1) takes the last entry.
deleteOne_NoGuard(d, id) ==
    LET idx == FindIndex(d.history, id)
        at == IF idx = 0 THEN Len(d.history) ELSE idx
        deleted == IF at = 0 THEN NoEntry ELSE d.history[at]
    IN  Outcome([d EXCEPT !.history = IF at = 0 THEN d.history ELSE SpliceOut(d.history, at),
                           !.deletedHistory = Append(d.deletedHistory, deleted)],
                TRUE, Reply(204, "empty", Null, NoEntry, <<>>))

deleteOne(d, id) ==
    LET idx == FindIndex(d.history, id)
    IN  IF idx = 0 THEN Outcome(d, FALSE, Reply(204, "empty", Null, NoEntry, <<>>))
        ELSE IF ~d.hasDeleted
        THEN Outcome([d EXCEPT !.history = SpliceOut(d.history, idx)], FALSE, Threw)
        ELSE Outcome([d EXCEPT !.history = SpliceOut(d.history, idx),
                               !.deletedHistory = Append(d.deletedHistory, d.history[idx])],
                     TRUE, Reply(204, "empty", Null, NoEntry, <<>>))

\* clearHistory as a hard delete (the entries are not pushed).
clearHistory_Hard(d) ==
    Outcome([d EXCEPT !.history = <<>>], TRUE, Reply(204, "empty", Null, NoEntry, <<>>))

\* clearHistory without history = [].
clearHistory_Keep(d) ==
    Outcome([d EXCEPT !.deletedHistory = d.deletedHistory \o d.history], TRUE,
            Reply(204, "empty", Null, NoEntry, <<>>))

clearHistory(d) ==
    IF ~d.hasDeleted THEN Outcome(d, FALSE, Threw)
    ELSE Outcome([d EXCEPT !.deletedHistory = d.deletedHistory \o d.history,
                           !.history = <<>>],
                 TRUE, Reply(204, "empty", Null, NoEntry, <<>>))

\* restoreLast without the check for an empty stack: pop() yields undefined.
restoreLast_NoCheck(d) ==
    LET n == Len(d.deletedHistory)
        restored == IF n = 0 THEN NoEntry ELSE d.deletedHistory[n]
    IN  Outcome([d EXCEPT !.deletedHistory = IF n = 0 THEN <<>> ELSE PopRest(d.deletedHistory),
                           !.history = Append(d.history, restored)],
                TRUE, Reply(200, "entry", Null, restored, <<>>))

\* restoreLast that also sets the counter to the restored snapshot's value.
restoreLast_Apply(d) ==
    IF Len(d.deletedHistory) = 0
    THEN Outcome(d, FALSE, Reply(404, "error", Null, NoEntry, <<>>))
    ELSE LET restored == d.deletedHistory[Len(d.deletedHistory)]
         IN  Outcome([d EXCEPT !.deletedHistory = PopRest(d.deletedHistory),
                                !.history = Append(d.history, restored),
                                !.counter = restored.value],
                     TRUE, Reply(200, "entry", Null, restored, <<>>))

\* restoreLast with shift in place of pop: the oldest deleted entry.
restoreLast_Shift(d) ==
    IF Len(d.deletedHistory) = 0
    THEN Outcome(d, FALSE, Reply(404, "error", Null, NoEntry, <<>>))
    ELSE LET restored == d.deletedHistory[1]
         IN  Outcome([d EXCEPT !.deletedHistory = Tail(d.deletedHistory),
                                !.history = Append(d.history, restored)],
                     TRUE, Reply(200, "entry", Null, restored, <<>>))

restoreLast(d) ==
    IF ~d.hasDeleted THEN Outcome(d, FALSE, Threw)
    ELSE IF Len(d.deletedHistory) = 0
    THEN Outcome(d, FALSE, Reply(404, "error", Null, NoEntry, <<>>))
    ELSE LET restored == d.deletedHistory[Len(d.deletedHistory)]
         IN  Outcome([d EXCEPT !.deletedHistory = PopRest(d.deletedHistory),
                                !.history = Append(d.history, restored)],
                     TRUE, Reply(200, "entry", Null, restored, <<>>))

\* listDeleted answering the most recent deletion first.
listDeleted_Reversed(d) ==
    Outcome(d, FALSE,
            Reply(200, "list", Null, NoEntry,
                  [i \in 1..Len(d.deletedHistory) |-> d.deletedHistory[Len(d.deletedHistory) + 1 - i]]))

listDeleted(d) == Outcome(d, FALSE, Reply(200, "list", Null, NoEntry, d.deletedHistory))

\* resetAll that leaves deletedHistory alone.
resetAll_KeepDeleted(d) ==
    Outcome([d EXCEPT !.counter = Zero, !.history = <<>>], TRUE,
            Reply(200, "success", Null, NoEntry, <<>>))

resetAll(d) ==
    Outcome([counter |-> Zero, history |-> <<>>, deletedHistory |-> <<>>, hasDeleted |-> TRUE],
            TRUE, Reply(200, "success", Null, NoEntry, <<>>))

\* ---------------------------------------------------------------- the test server
\* createTestServer: new Low(adapter, { counter: 0, history: [] }).
testDefaultData == [counter |-> Zero, history |-> <<>>, deletedHistory |-> <<>>, hasDeleted |-> FALSE]

\* history.filter((item) => item.id !== id)
FilterOut(s, id) == SelectSeq(s, LAMBDA e : e.id # id)

\* The test server's DELETE /api/history/:id: filter, then always db.write().
testDeleteOne(d, id) ==
    Outcome([d EXCEPT !.history = FilterOut(d.history, id)], TRUE,
            Reply(204, "empty", Null, NoEntry, <<>>))

\* The test server's DELETE /api/history.
testClearHistory(d) ==
    Outcome([d EXCEPT !.history = <<>>], TRUE, Reply(204, "empty", Null, NoEntry, <<>>))

\* The routes of the test server; the counter routes, POST and GET
\* /api/history repeat the text of the server's handlers.
testHandler(r, d, id, now) ==
    CASE r.op = "getCounter" -> getCounter(d)
      [] r.op = "increment" -> increment(d, r.amount)
      [] r.op = "decrement" -> decrement(d, r.amount)
      [] r.op = "resetCounter" -> resetCounter(d)
      [] r.op = "saveSnapshot" -> saveSnapshot(d, id, now)
      [] r.op = "listHistory" -> listHistory(d)
      [] r.op = "deleteOne" -> testDeleteOne(d, r.id)
      [] r.op = "clearHistory" -> testClearHistory(d)

\* The route table: what the handler of request r does on db.data = d.
Handler(r, d, id, now) ==
    CASE r.op = "getCounter" -> getCounter(d)
      [] r.op = "increment" -> increment(d, r.amount)
      [] r.op = "decrement" -> decrement(d, r.amount)
      [] r.op = "resetCounter" -> resetCounter(d)
      [] r.op = "saveSnapshot" -> saveSnapshot(d, id, now)
      [] r.op = "listHistory" -> listHistory(d)
      [] r.op = "deleteOne" -> deleteOne(d, r.id)
      [] r.op = "clearHistory" -> clearHistory(d)
      [] r.op = "restoreLast" -> restoreLast(d)
      [] r.op = "listDeleted" -> listDeleted(d)
      [] r.op = "resetAll" -> resetAll(d)

\* res.json({ value: db.data.counter }) of the counter routes runs after the
\* awaited write and reads db.data as it is then.
lateReply(r, reply, dataNow) ==
    IF r.op \in {"increment", "decrement", "resetCounter"}
    THEN [reply EXCEPT !.value = JsonNum(dataNow.counter)]
    ELSE reply

\* ---------------------------------------------------------------- state
VARIABLES
    disk,     \* db.json: [exists, doc]
    data,     \* db.data, the one in-memory document all handlers share
    pc,       \* where each request slot's handler is
    req,      \* the request each slot serves (or served last)
    buf,      \* the file content the slot's db.read() got
    resp,     \* the response the slot sent
    writeQ,   \* db.write() calls not yet on disk, oldest first: [p, file]
    nextId,   \* number of uuidv4() calls so far, plus one
    clock,    \* Date.now()
    wrote,    \* number of db.write() calls of the slot's request
    calls,    \* parity of the number of requests served one at a time
    events,   \* the last writing stack operations served one at a time, oldest first
    test      \* the test server run side by side: its file, db.data and last response

vars == <<disk, data, pc, req, buf, resp, wrote, writeQ, nextId, clock, calls, events, test>>

Slots == {1, 2}

StackOps == {"deleteOne", "clearHistory", "restoreLast", "resetAll"}

\* The entry a writing stack operation was about: the one deleteOne was
\* asked to delete, the one restoreLast returned.
movedEntry(r, d, o) ==
    CASE r.op = "deleteOne" ->
            IF FindIndex(d.history, r.id) = 0 THEN NoEntry
            ELSE d.history[FindIndex(d.history, r.id)]
      [] r.op = "restoreLast" -> o.reply.entry
      [] OTHER -> NoEntry

\* A stack operation that wrote: its route, the entry it was about and the
\* two lists as it found them.
Event(r, d, o) ==
    [op |-> r.op, entry |-> movedEntry(r, d, o), history |-> d.history,
     deletedHistory |-> d.deletedHistory]

KeepLast(s, depth) == IF Len(s) > depth THEN SubSeq(s, Len(s) - depth + 1, Len(s)) ELSE s

logged(depth, r, d, o) ==
    IF r.op \in StackOps /\ o.write THEN KeepLast(Append(events, Event(r, d, o)), depth) ELSE events

\* ---------------------------------------------------------------- inputs
Amounts ==
    {Absent, StringAmount, NullAmount,
     NumberAmount(Fin(2)), NumberAmount(Fin(-2)), NumberAmount(Fin(4)),
     NumberAmount(Fin(5)), NumberAmount(PosInf), NumberAmount(Big(0))}

CounterRequests(amounts) ==
    {Request(o, Absent, 0) : o \in {"getCounter", "resetCounter"}}
    \cup {Request(o, a, 0) : o \in {"increment", "decrement"}, a \in amounts}

HistoryRequests ==
    {Request(o, Absent, 0) :
        o \in {"saveSnapshot", "listHistory", "clearHistory", "restoreLast",
               "listDeleted", "resetAll"}}
    \cup {Request("deleteOne", Absent, i) : i \in 1..MaxEntries}

\* A request can name only an id uuidv4() has already returned.
Sendable(r) == r.id < nextId

\* The instants Date.now() can return to request r: time does not run
\* backwards, and only saveSnapshot reads the clock.
Nows(r) == IF r.op = "saveSnapshot" THEN clock..MaxClock ELSE {clock}

\* The model's bounds on a call: at most cap uuidv4() calls, counter within lo..hi.
Bounded(r, o, cap, lo, hi) ==
    /\ r.op = "saveSnapshot" => nextId <= cap
    /\ o.data.counter.k \in {"fin", "big", "negbig"} =>
          (o.data.counter.h >= 2 * lo /\ o.data.counter.h <= 2 * hi)
    /\ o.data.counter.k # "far"

\* The test server before it is started.
NoTest == [disk |-> NoFile, data |-> testDefaultData, resp |-> NoReply]

Init ==
    /\ disk \in {NoFile, [exists |-> TRUE, doc |-> legacyData]}
    /\ data = defaultData
    /\ pc = [p \in Slots |-> "idle"]
    /\ req = [p \in Slots |-> NoRequest]
    /\ buf = [p \in Slots |-> NoFile]
    /\ resp = [p \in Slots |-> NoReply]
    /\ wrote = [p \in Slots |-> 0]
    /\ writeQ = <<>>
    /\ nextId = 1
    /\ clock = 0
    /\ calls = 0
    /\ events = <<>>
    /\ test = NoTest

\* ---------------------------------------------------------------- one request at a time
\* A whole request with no other request in flight: initDb() (read, upgrade
\* and its write), the handler, its write and its response.  depth: how many
\* stack operations the log keeps; keep: whether the file content db.read()
\* got is kept in buf; the counter is explored within lo..hi.
Call(r, now, depth, keep, lo, hi) ==
    /\ \A p \in Slots : pc[p] \in {"idle", "done"}
    /\ writeQ = <<>>
    /\ Sendable(r)
    /\ \E d0 \in {lowRead(disk, data)} :
       \E d1 \in {IF needsUpgrade(d0) THEN upgrade(d0) ELSE d0} :
       \E o \in {Handler(r, d1, nextId, now)} :
          /\ Bounded(r, o, MaxEntries, lo, hi)
          /\ disk' = IF o.write THEN Serialize(o.data)
                      ELSE IF needsUpgrade(d0) THEN Serialize(d1) ELSE disk
          /\ data' = o.data
          /\ pc' = [pc EXCEPT ![1] = IF o.reply.kind = "threw" THEN "threw" ELSE "done"]
          /\ req' = [req EXCEPT ![1] = r]
          /\ resp' = [resp EXCEPT ![1] = lateReply(r, o.reply, o.data)]
          /\ wrote' = [wrote EXCEPT ![1] =
                           (IF needsUpgrade(d0) THEN 1 ELSE 0) + (IF o.write THEN 1 ELSE 0)]
          /\ nextId' = IF r.op = "saveSnapshot" THEN nextId + 1 ELSE nextId
          /\ clock' = now
          /\ calls' = 1 - calls
          /\ events' = logged(depth, r, d1, o)
          /\ buf' = IF keep THEN [buf EXCEPT ![1] = disk] ELSE buf
          /\ UNCHANGED writeQ

\* Every route, one request at a time; the clock stands still.
Next ==
    /\ \E r \in CounterRequests({Absent}) \cup HistoryRequests : Call(r, clock, 1, FALSE, 0, MaxCounter)
    /\ UNCHANGED test

Spec == Init /\ [][Next]_vars

\* The history routes, one request at a time, with the log of stack
\* operations; the clock stands still and the counter stays 0.
NextStack ==
    /\ \E r \in HistoryRequests : Call(r, clock, 4, FALSE, 0, MaxCounter)
    /\ UNCHANGED test

SpecStack == Init /\ [][NextStack]_vars

\* The history routes, one request at a time, while time passes.
NextTime ==
    /\ \E r \in HistoryRequests : \E now \in Nows(r) : Call(r, now, 0, FALSE, 0, MaxCounter)
    /\ UNCHANGED test

SpecTime == Init /\ [][NextTime]_vars

\* The counter routes with every kind of amount, one request at a time.
NextCounter ==
    /\ \E r \in CounterRequests(Amounts) : Call(r, clock, 0, TRUE, -(MaxCounter + 2), MaxCounter + 2)
    /\ UNCHANGED test

SpecCounter == Init /\ [][NextCounter]_vars

\* ---------------------------------------------------------------- documents of the earlier version
\* An entry saved by the version of the server that had no deletedHistory.
OldEntry(c) == [id |-> 1, value |-> c, savedAt |-> 0]

\* db.json as that version left it: a counter and a history, no deletedHistory.
OldFiles ==
    {[exists |-> TRUE,
      doc |-> [counter |-> c, history |-> h, deletedHistory |-> <<>>, hasDeleted |-> FALSE]] :
        c \in {Zero, One}, h \in {<<>>, <<OldEntry(Zero)>>, <<OldEntry(One)>>}}

InitOld ==
    /\ disk \in OldFiles
    /\ data = defaultData
    /\ pc = [p \in Slots |-> "idle"]
    /\ req = [p \in Slots |-> NoRequest]
    /\ buf = [p \in Slots |-> NoFile]
    /\ resp = [p \in Slots |-> NoReply]
    /\ wrote = [p \in Slots |-> 0]
    /\ writeQ = <<>>
    /\ nextId = 2
    /\ clock = 0
    /\ calls = 0
    /\ events = <<>>
    /\ test = NoTest

\* Every route, one request at a time, on a file of the earlier version.
NextOld ==
    /\ \E r \in CounterRequests({Absent, NumberAmount(PosInf)}) \cup HistoryRequests :
          Call(r, clock, 0, TRUE, 0, MaxCounter)
    /\ UNCHANGED test

SpecOld == InitOld /\ [][NextOld]_vars

\* ---------------------------------------------------------------- the server and the test server
\* The routes createTestServer has.
SharedRequests ==
    CounterRequests({Absent, NumberAmount(Fin(4)), NumberAmount(PosInf)})
    \cup {Request(o, Absent, 0) : o \in {"saveSnapshot", "listHistory", "clearHistory"}}
    \cup {Request("deleteOne", Absent, i) : i \in 1..MaxEntries}

\* A whole request to the test server: initDb() (db.read()), the handler,
\* its write and its response.
TestCall(r, id, now) ==
    \E d0 \in {lowRead(test.disk, test.data)} :
    \E o \in {testHandler(r, d0, id, now)} :
        test' = [disk |-> IF o.write THEN Serialize(o.data) ELSE test.disk,
                 data |-> o.data,
                 resp |-> lateReply(r, o.reply, o.data)]

\* Both servers start on the same file (none, or one with a counter and a
\* history) and get the same requests, uuids and clock readings.
InitBoth ==
    /\ disk \in OldFiles \cup {NoFile}
    /\ data = defaultData
    /\ pc = [p \in Slots |-> "idle"]
    /\ req = [p \in Slots |-> NoRequest]
    /\ buf = [p \in Slots |-> NoFile]
    /\ resp = [p \in Slots |-> NoReply]
    /\ wrote = [p \in Slots |-> 0]
    /\ writeQ = <<>>
    /\ nextId = 2
    /\ clock = 0
    /\ calls = 0
    /\ events = <<>>
    /\ test = [disk |-> disk, data |-> testDefaultData, resp |-> NoReply]

NextBoth ==
    \E r \in SharedRequests :
        /\ Call(r, clock, 0, FALSE, 0, MaxCounter + 1)
        /\ TestCall(r, nextId, clock)

SpecBoth == InitBoth /\ [][NextBoth]_vars

\* ---------------------------------------------------------------- overlapping requests
\* A request arrives and takes the first free slot p: its handler calls
\* initDb(), which calls db.read().
Begin(p, r) ==
    /\ pc[p] \in {"idle", "done"}
    /\ \A q \in Slots : q < p => pc[q] \notin {"idle", "done"}
    /\ Sendable(r)
    /\ pc' = [pc EXCEPT ![p] = "reading"]
    /\ req' = [req EXCEPT ![p] = r]
    /\ buf' = [buf EXCEPT ![p] = NoFile]
    /\ resp' = [resp EXCEPT ![p] = NoReply]
    /\ wrote' = [wrote EXCEPT ![p] = 0]
    /\ UNCHANGED <<disk, data, writeQ, nextId, clock, calls, events, test>>

\* db.read() reads the file.
ReadFile(p) ==
    /\ pc[p] = "reading"
    /\ buf' = [buf EXCEPT ![p] = disk]
    /\ pc' = [pc EXCEPT ![p] = "loaded"]
    /\ UNCHANGED <<disk, data, req, resp, wrote, writeQ, nextId, clock, calls, events, test>>

\* The handler of slot p runs on db.data = d up to its db.write() call, or
\* to its response when it does not write.
Run(p, d) ==
    \E o \in {Handler(req[p], d, nextId, clock)} :
        /\ Bounded(req[p], o, MaxRaceEntries, 0, MaxCounter + 1)
        /\ data' = o.data
        /\ resp' = [resp EXCEPT ![p] = lateReply(req[p], o.reply, o.data)]
        /\ nextId' = IF req[p].op = "saveSnapshot" THEN nextId + 1 ELSE nextId
        /\ IF o.write
           THEN /\ writeQ' = Append(writeQ, [p |-> p, file |-> Serialize(o.data)])
                /\ wrote' = [wrote EXCEPT ![p] = wrote[p] + 1]
                /\ pc' = [pc EXCEPT ![p] = "writing"]
           ELSE /\ writeQ' = writeQ
                /\ wrote' = wrote
                /\ pc' = [pc EXCEPT ![p] = IF o.reply.kind = "threw" THEN "threw" ELSE "done"]
        /\ UNCHANGED <<disk, req, buf, clock, calls, events, test>>

\* db.read() returns: db.data is replaced, initDb() upgrades a document
\* without deletedHistory and awaits that write, otherwise the handler runs.
Resume(p) ==
    /\ pc[p] = "loaded"
    /\ \E d0 \in {lowRead(buf[p], data)} :
           IF needsUpgrade(d0)
           THEN /\ data' = upgrade(d0)
                /\ writeQ' = Append(writeQ, [p |-> p, file |-> Serialize(upgrade(d0))])
                /\ wrote' = [wrote EXCEPT ![p] = 1]
                /\ pc' = [pc EXCEPT ![p] = "upgrading"]
                /\ UNCHANGED <<disk, req, buf, resp, nextId, clock, calls, events, test>>
           ELSE Run(p, d0)

\* The oldest pending db.write() replaces the file and its caller may go on.
WriteLand ==
    /\ writeQ # <<>>
    /\ disk' = Head(writeQ).file
    /\ writeQ' = Tail(writeQ)
    /\ pc' = [pc EXCEPT ![Head(writeQ).p] =
                 IF pc[Head(writeQ).p] = "upgrading" THEN "upgraded" ELSE "written"]
    /\ UNCHANGED <<data, req, buf, resp, wrote, nextId, clock, calls, events, test>>

\* After the upgrade's write the handler runs on db.data as it is by then.
AfterUpgrade(p) ==
    /\ pc[p] = "upgraded"
    /\ Run(p, data)

\* After its write the handler answers.
Respond(p) ==
    /\ pc[p] = "written"
    /\ resp' = [resp EXCEPT ![p] = lateReply(req[p], resp[p], data)]
    /\ pc' = [pc EXCEPT ![p] = "done"]
    /\ UNCHANGED <<disk, data, req, buf, wrote, writeQ, nextId, clock, calls, events, test>>

\* The steps of overlapping requests drawn from the set rs.
Steps(rs) ==
    \/ \E p \in Slots, r \in rs : Begin(p, r)
    \/ \E p \in Slots : ReadFile(p)
    \/ \E p \in Slots : Resume(p)
    \/ WriteLand
    \/ \E p \in Slots : AfterUpgrade(p)
    \/ \E p \in Slots : Respond(p)

\* Two history requests at a time, interleaved at db.read() and db.write().
NextRace == Steps(HistoryRequests \ {Request("listHistory", Absent, 0), Request("listDeleted", Absent, 0)})

SpecRace == Init /\ [][NextRace]_vars

\* Two counter requests at a time.
NextRaceCounter == Steps(CounterRequests({Absent}))

SpecRaceCounter == Init /\ [][NextRaceCounter]_vars

\* ---------------------------------------------------------------- properties
Ids(s) == {s[i].id : i \in 1..Len(s)}

NoRepeat(s) == \A i, j \in 1..Len(s) : i # j => s[i].id # s[j].id

UniqueIds(d) == NoRepeat(d.history \o d.deletedHistory)

\* Every copy of the document there is: the file, db.data, the writes under
\* way and what the reads under way have got.
Documents ==
    {disk.doc, data} \cup {writeQ[i].file.doc : i \in 1..Len(writeQ)} \cup {buf[p].doc : p \in Slots}

Idle(p) == pc[p] \in {"idle", "done"}

\* C1: in every reachable state, also while requests overlap at db.read()
\* and db.write(), no entry id occurs twice in history, twice in
\* deletedHistory, or in both lists, in any copy of the document.
C1_UniqueIds == \A d \in Documents : UniqueIds(d)

\* A deleteOne and a clearHistory that both read the file while the entry was
\* in history have both moved it, and both are done.
C1_Witness ==
    /\ pc[1] = "done" /\ pc[2] = "done"
    /\ req[1].op = "deleteOne" /\ req[2].op = "clearHistory"
    /\ wrote[1] = 1 /\ wrote[2] = 1
    /\ buf[1] = buf[2] /\ Len(buf[1].doc.history) = 1
    /\ Len(disk.doc.deletedHistory) = 1

\* The request served last, one at a time, was a stack operation that wrote,
\* so the last entry of the log is about it.
JustDid(o) ==
    /\ req[1].op = o /\ wrote[1] >= 1 /\ pc[1] = "done"
    /\ Len(events) >= 1 /\ events[Len(events)].op = o

LastEvent == events[Len(events)]

\* C2: deleteOne(E.id) of an entry E of history removes E from history and
\* makes it the last element of deletedHistory; a restoreLast that follows
\* returns E, puts E back into history and leaves deletedHistory as it was
\* before the deleteOne.
C2_RoundTrip ==
    /\ JustDid("deleteOne") =>
          LET ev == LastEvent
          IN  /\ ev.entry.id = req[1].id
              /\ ev.entry.id \notin Ids(disk.doc.history)
              /\ disk.doc.history = SpliceOut(ev.history, FindIndex(ev.history, req[1].id))
              /\ disk.doc.deletedHistory = Append(ev.deletedHistory, ev.entry)
              /\ resp[1].status = 204
    /\ (JustDid("restoreLast") /\ Len(events) >= 2 /\ events[Len(events) - 1].op = "deleteOne") =>
          LET del == events[Len(events) - 1]
          IN  /\ resp[1] = Reply(200, "entry", Null, del.entry, <<>>)
              /\ \E i \in 1..Len(disk.doc.history) : disk.doc.history[i] = del.entry
              /\ disk.doc.deletedHistory = del.deletedHistory

\* A restoreLast right after a deleteOne that found other deleted entries
\* already on the stack.
C2_Witness ==
    /\ JustDid("restoreLast") /\ Len(events) >= 2
    /\ events[Len(events) - 1].op = "deleteOne"
    /\ events[Len(events) - 1].deletedHistory # <<>>
    /\ resp[1].entry = events[Len(events) - 1].entry

\* Positions of the log where deleteOne A, deleteOne B, restoreLast,
\* restoreLast follow one another (no other delete or restore in between).
DeleteDeleteRestoreRestore ==
    {i \in 1..(Len(events) - 3) :
        /\ events[i].op = "deleteOne" /\ events[i + 1].op = "deleteOne"
        /\ events[i + 2].op = "restoreLast" /\ events[i + 3].op = "restoreLast"}

\* C3: deletedHistory is a stack in deletion order: the entry deleted last is
\* its last element, and after deleteOne A, deleteOne B the first
\* restoreLast returns B and the second returns A.
C3_StackOrder ==
    /\ (Len(events) >= 1 /\ LastEvent.op = "deleteOne") =>
          (/\ Len(disk.doc.deletedHistory) >= 1
           /\ disk.doc.deletedHistory[Len(disk.doc.deletedHistory)] = LastEvent.entry)
    /\ \A i \in DeleteDeleteRestoreRestore :
          /\ events[i + 2].entry = events[i + 1].entry
          /\ events[i + 3].entry = events[i].entry

\* A and B were deleted in that order and both restored.
C3_Witness ==
    \E i \in DeleteDeleteRestoreRestore :
        /\ events[i].entry.id # events[i + 1].entry.id
        /\ JustDid("restoreLast")
        /\ resp[1].entry = events[i].entry

\* ---------------------------------------------------------------- one request at a time
\* This step served request o (one at a time).
Served(o) == calls' # calls /\ req'[1].op = o

\* The document a request served now finds after db.read().
Loaded == lowRead(disk, data)

AllIds(d) == Ids(d.history) \cup Ids(d.deletedHistory)

\* C4: restoreLast on an empty deletedHistory answers 404, calls no
\* db.write() and leaves the file and the document as they were.
C4_RestoreEmpty ==
    [][(Served("restoreLast") /\ Loaded.hasDeleted /\ Loaded.deletedHistory = <<>>) =>
          /\ resp'[1] = Reply(404, "error", Null, NoEntry, <<>>)
          /\ wrote'[1] = 0
          /\ disk' = disk
          /\ data' = Loaded]_vars

\* restoreLast has answered 404 on a document that has history entries.
C4_Witness ==
    /\ req[1].op = "restoreLast" /\ pc[1] = "done"
    /\ resp[1].status = 404 /\ wrote[1] = 0
    /\ disk.exists /\ Len(disk.doc.history) >= 1 /\ disk.doc.deletedHistory = <<>>

\* C5: clearHistory on history H and deletedHistory D leaves history empty
\* and deletedHistory = D followed by H, and the counter as it was.
C5_ClearHistory ==
    [][Served("clearHistory") =>
          /\ disk'.exists
          /\ disk'.doc.history = <<>>
          /\ disk'.doc.deletedHistory = Loaded.deletedHistory \o Loaded.history
          /\ disk'.doc.counter = Loaded.counter
          /\ data' = disk'.doc
          /\ resp'[1].status = 204]_vars

\* clearHistory has moved a non-empty history behind a non-empty stack.
C5_Witness ==
    /\ JustDid("clearHistory")
    /\ LastEvent.history # <<>> /\ LastEvent.deletedHistory # <<>>
    /\ disk.doc.deletedHistory = LastEvent.deletedHistory \o LastEvent.history
    /\ disk.doc.counter # Zero

\* C6: resetAll leaves counter 0 and both lists empty; while no deleteOne or
\* clearHistory has written since, deletedHistory stays empty and
\* restoreLast answers 404; an id that is in neither list is never in a list
\* again.
C6_ResetAll ==
    /\ []((Len(events) >= 1 /\ LastEvent.op = "resetAll") =>
            /\ disk.doc.deletedHistory = <<>>
            /\ AllIds(disk.doc) \cap (Ids(LastEvent.history) \cup Ids(LastEvent.deletedHistory)) = {})
    /\ [][/\ Served("resetAll") =>
              /\ disk' = Serialize(defaultData)
              /\ data' = defaultData
              /\ resp'[1] = Reply(200, "success", Null, NoEntry, <<>>)
          /\ (Served("restoreLast") /\ Len(events) >= 1 /\ LastEvent.op = "resetAll") =>
              /\ resp'[1].status = 404
              /\ disk' = disk
          /\ \A id \in 1..(nextId - 1) :
              id \notin AllIds(disk.doc) => id \notin AllIds(disk'.doc)]_vars

\* After a resetAll that wiped a non-empty stack, restoreLast has answered 404.
C6_Witness ==
    /\ Len(events) >= 1 /\ LastEvent.op = "resetAll"
    /\ LastEvent.deletedHistory # <<>> /\ LastEvent.history # <<>>
    /\ req[1].op = "restoreLast" /\ pc[1] = "done" /\ resp[1].status = 404
    /\ disk.doc = defaultData

\* ---------------------------------------------------------------- overlapping counter requests
\* Slot p has completed an increment whose handler ran straight on the
\* document its own db.read() loaded from the file.
IncrementedFromFile(p) ==
    /\ pc[p] = "done" /\ req[p].op = "increment"
    /\ resp[p].status = 200
    /\ buf[p].exists /\ wrote[p] = 1

\* Both slots have completed such an increment off the same counter value:
\* neither reload saw the other's write.
BothIncrementedBlind ==
    /\ \A p \in Slots : IncrementedFromFile(p)
    /\ buf[1].doc.counter = buf[2].doc.counter
    /\ writeQ = <<>>

\* C7: when two increments have both completed after reloading the same
\* counter value c, the persisted counter is c + 1: one update is lost.
C7_LostUpdate ==
    BothIncrementedBlind => disk.doc.counter = AddNum(buf[1].doc.counter, One)

\* Two increments read counter 1, both answered 200, the file holds 2.
C7_Witness ==
    /\ BothIncrementedBlind
    /\ buf[1].doc.counter = One
    /\ disk.doc.counter = Fin(4)

\* ---------------------------------------------------------------- amounts
\* The amount is a JSON number with an integer value.
IntegerCompatible(a) == a.t = "number" /\ a.n.k \in {"fin", "big", "negbig"} /\ a.n.h % 2 = 0

\* C8: an amount that is not an integer-compatible number makes increment
\* and decrement change the counter by exactly 1.
C8_DefaultAmount ==
    [][(calls' # calls /\ req'[1].op \in {"increment", "decrement"}
          /\ ~IntegerCompatible(req'[1].amount)) =>
          /\ resp'[1].status = 200
          /\ data'.counter = IF req'[1].op = "increment"
                             THEN AddNum(Loaded.counter, One)
                             ELSE SubNum(Loaded.counter, One)]_vars

\* ---------------------------------------------------------------- order of history
\* Entries saved earlier come first (ids are handed out in save order).
SaveOrdered(s) == \A i, j \in 1..Len(s) : i < j => s[i].id < s[j].id /\ s[i].savedAt <= s[j].savedAt

\* C9 as stated: history is in save order in every reachable state.
C9_Chronological == SaveOrdered(Loaded.history)

\* C9 as amended: every operation but restoreLast keeps history in save
\* order; restoreLast appends the restored entry at the end of history.
C9_OrderUntilRestore ==
    [][calls' # calls =>
          /\ (req'[1].op # "restoreLast" /\ SaveOrdered(Loaded.history)) =>
                SaveOrdered(Loaded'.history)
          /\ (req'[1].op = "restoreLast" /\ Loaded.deletedHistory # <<>>) =>
                Loaded'.history =
                    Append(Loaded.history, Loaded.deletedHistory[Len(Loaded.deletedHistory)])]_vars

\* restoreLast has put an earlier-saved entry behind a later-saved one.
C9_Witness ==
    /\ req[1].op = "restoreLast" /\ pc[1] = "done" /\ resp[1].status = 200
    /\ Len(disk.doc.history) = 2
    /\ disk.doc.history[2] = resp[1].entry
    /\ disk.doc.history[1].id > disk.doc.history[2].id
    /\ disk.doc.history[1].savedAt > disk.doc.history[2].savedAt

\* ---------------------------------------------------------------- snapshots
Entries(d) ==
    {d.history[i] : i \in 1..Len(d.history)} \cup {d.deletedHistory[i] : i \in 1..Len(d.deletedHistory)}

\* C10: saveSnapshot appends an entry holding the counter of that moment,
\* and no operation changes the id, value or savedAt of a stored entry.
C10_Snapshot ==
    [][calls' # calls =>
          /\ req'[1].op = "saveSnapshot" =>
                /\ Len(Loaded'.history) = Len(Loaded.history) + 1
                /\ SubSeq(Loaded'.history, 1, Len(Loaded.history)) = Loaded.history
                /\ Loaded'.history[Len(Loaded'.history)].value = Loaded.counter
                /\ Loaded'.history[Len(Loaded'.history)].id \notin AllIds(Loaded)
                /\ resp'[1].entry = Loaded'.history[Len(Loaded'.history)]
                /\ Loaded'.counter = Loaded.counter
          /\ \A e \in Entries(Loaded), f \in Entries(Loaded') : f.id = e.id => f = e]_vars

\* A counter operation has moved the counter away from a stored snapshot.
C10_Witness ==
    /\ req[1].op \in {"increment", "decrement", "resetCounter"} /\ pc[1] = "done"
    /\ disk.exists
    /\ \E e \in Entries(disk.doc) : e.value = One /\ disk.doc.counter = Zero
    /\ \E e \in Entries(disk.doc) : e.value = Zero

\* ---------------------------------------------------------------- entries are kept
Total(d) == Len(d.history) + Len(d.deletedHistory)

\* C11: one request at a time, every operation but resetAll keeps every
\* stored entry in exactly one of the two lists; saveSnapshot adds the entry
\* it returns; deleteOne, clearHistory and restoreLast keep the number of
\* entries.
C11_NeverDestroyed ==
    [][(calls' # calls /\ req'[1].op # "resetAll") =>
          /\ Entries(Loaded) \subseteq Entries(Loaded')
          /\ UniqueIds(Loaded')
          /\ req'[1].op = "saveSnapshot" => resp'[1].entry \in Entries(Loaded')
          /\ req'[1].op \in {"deleteOne", "clearHistory", "restoreLast"} =>
                Total(Loaded') = Total(Loaded)]_vars

\* Two saved entries, one deleted by id and the other by clearHistory, are
\* both still stored.
C11_Witness ==
    /\ req[1].op = "clearHistory" /\ pc[1] = "done"
    /\ disk.doc.history = <<>>
    /\ Len(disk.doc.deletedHistory) = 2
    /\ disk.doc.deletedHistory[1].id = 2 /\ disk.doc.deletedHistory[2].id = 1

\* ---------------------------------------------------------------- deleting what is not there
\* C12: deleteOne of an id that is not in history answers 204, writes
\* nothing and leaves the document as it was; after any deleteOne the id is
\* not in history, so the same deleteOne again is that case.
C12_DeleteMissing ==
    [][Served("deleteOne") =>
          /\ req'[1].id \notin Ids(Loaded.history) =>
                /\ resp'[1] = Reply(204, "empty", Null, NoEntry, <<>>)
                /\ wrote'[1] = 0
                /\ disk' = disk
                /\ Loaded' = Loaded
          /\ req'[1].id \notin Ids(Loaded'.history)
          /\ (Len(events) >= 1 /\ LastEvent.op = "deleteOne"
                /\ LastEvent.entry.id = req'[1].id) => disk' = disk]_vars

\* The deleteOne that deleted an entry has been repeated, with another
\* entry still in history.
C12_Witness ==
    /\ req[1].op = "deleteOne" /\ pc[1] = "done"
    /\ resp[1].status = 204 /\ wrote[1] = 0
    /\ Len(events) >= 1 /\ LastEvent.op = "deleteOne" /\ LastEvent.entry.id = req[1].id
    /\ req[1].id \in Ids(disk.doc.deletedHistory)
    /\ disk.doc.history # <<>>

\* ---------------------------------------------------------------- increment then decrement
IsInteger(x) == x.k \in {"fin", "big", "negbig"} /\ x.h % 2 = 0

\* An integer of magnitude at most 2^53 - 1.
SafeInteger(x) ==
    /\ IsInteger(x)
    /\ x.k = "big" => x.h < 0
    /\ x.k = "negbig" => x.h > 0

\* The sum of two integers as an integer (nothing is rounded).
ExactSum(x, y) ==
    CASE x.k = "fin" /\ y.k = "fin" -> Fin(x.h + y.h)
      [] x.k = "big" /\ y.k = "fin" -> Big(x.h + y.h)
      [] x.k = "fin" /\ y.k = "big" -> Big(x.h + y.h)
      [] x.k = "negbig" /\ y.k = "fin" -> NegBig(x.h + y.h)
      [] x.k = "fin" /\ y.k = "negbig" -> NegBig(x.h + y.h)
      [] x.k = "big" /\ y.k = "negbig" -> Fin(x.h + y.h)
      [] x.k = "negbig" /\ y.k = "big" -> Fin(x.h + y.h)
      [] OTHER -> Far(IF x.k = "big" THEN 1 ELSE -1)

\* The counter the request served last found after its db.read().
Found == IF buf[1].exists THEN buf[1].doc.counter ELSE Zero

\* This step serves decrement(a) right after increment(a) was served.
DecrementAfterIncrement ==
    /\ req[1].op = "increment" /\ pc[1] = "done"
    /\ Served("decrement")
    /\ req'[1].amount = req[1].amount
    /\ req[1].amount.t = "number"

C14_ResetCounter ==
    [][Served("resetCounter") =>
          /\ resp'[1] = Reply(200, "value", Zero, NoEntry, <<>>)
          /\ disk'.exists
          /\ Loaded' = [upgrade(Loaded) EXCEPT !.counter = Zero]
          /\ (req[1].op = "resetCounter" /\ pc[1] = "done") => disk' = disk]_vars

\* resetCounter has found the counter at 2.5 and left it at 0.
C14_Witness ==
    /\ req[1].op = "resetCounter" /\ pc[1] = "done"
    /\ Found = Fin(5)
    /\ resp[1].value = Zero
    /\ disk.doc.counter = Zero

\* ---------------------------------------------------------------- upgrade of old documents
ReadOnly == {"getCounter", "listHistory", "listDeleted"}

\* C15: the first request served on a file without deletedHistory, whatever
\* its route, works on deletedHistory = [] and writes the document with that
\* list, counter and history being as the file had them when the route is
\* read-only; from then on the file always has a deletedHistory list.
C15_Upgrade ==
    [][calls' # calls =>
          /\ (disk.exists /\ ~disk.doc.hasDeleted) =>
                /\ wrote'[1] >= 1
                /\ disk'.exists /\ disk'.doc.hasDeleted
                /\ req'[1].op \in ReadOnly => disk'.doc = upgrade(disk.doc)
                /\ req'[1].op = "getCounter" => resp'[1].value = disk.doc.counter
                /\ req'[1].op = "listHistory" => resp'[1].list = disk.doc.history
                /\ req'[1].op = "listDeleted" => resp'[1].list = <<>>
                /\ req'[1].op = "restoreLast" => resp'[1].status = 404 /\ disk'.doc = upgrade(disk.doc)
                /\ req'[1].op = "clearHistory" => disk'.doc.deletedHistory = disk.doc.history
                /\ req'[1].op \in {"increment", "decrement", "resetCounter"} =>
                      /\ disk'.doc.history = disk.doc.history
                      /\ disk'.doc.deletedHistory = <<>>
          /\ (disk.exists /\ disk.doc.hasDeleted) => (disk'.exists /\ disk'.doc.hasDeleted)]_vars

\* getCounter, served first on an old file with counter 1 and one entry, has
\* written the file with the added list.
C15_Witness ==
    /\ req[1].op = "getCounter" /\ pc[1] = "done"
    /\ buf[1].exists /\ ~buf[1].doc.hasDeleted
    /\ wrote[1] = 1
    /\ resp[1].value = One
    /\ disk.doc = upgrade(buf[1].doc)
    /\ disk.doc.history = <<OldEntry(Zero)>>

\* ---------------------------------------------------------------- reload and rewrite
\* The document on disk as a handler gets it from initDb().
OnDisk == IF needsUpgrade(disk.doc) THEN upgrade(disk.doc) ELSE disk.doc

Mutating ==
    {"increment", "decrement", "resetCounter", "saveSnapshot", "deleteOne", "clearHistory",
     "restoreLast", "resetAll"}

\* C16: one request at a time, a request that wrote leaves on disk the whole
\* document it computed, a request that did not write leaves the file as it
\* was, and what a request returns and stores is computed from the file as
\* it was when the request started, not from what db.data held.
C16_ReloadRewrite ==
    /\ []((pc[1] = "done" /\ wrote[1] >= 1) => disk = Serialize(data))
    /\ [][(calls' # calls /\ disk.exists) =>
             /\ wrote'[1] = 0 => disk' = disk
             /\ req'[1].op \notin Mutating => disk'.doc = OnDisk
             /\ req'[1].op \in {"increment", "decrement", "resetCounter", "saveSnapshot",
                                "clearHistory", "resetAll"} => wrote'[1] >= 1
             /\ req'[1].op = "getCounter" => resp'[1].value = OnDisk.counter
             /\ req'[1].op = "listHistory" => resp'[1].list = OnDisk.history
             /\ req'[1].op = "listDeleted" => resp'[1].list = OnDisk.deletedHistory
             /\ req'[1].op = "increment" =>
                   resp'[1].value = JsonNum(AddNum(OnDisk.counter, amountOf(req'[1].amount)))
             /\ req'[1].op = "decrement" =>
                   resp'[1].value = JsonNum(SubNum(OnDisk.counter, amountOf(req'[1].amount)))
             /\ req'[1].op \in {"increment", "decrement", "resetCounter"} =>
                   /\ disk'.doc.counter = resp'[1].value
                   /\ disk'.doc.history = OnDisk.history
                   /\ disk'.doc.deletedHistory = OnDisk.deletedHistory
             /\ req'[1].op = "saveSnapshot" =>
                   /\ resp'[1].entry.value = OnDisk.counter
                   /\ disk'.doc = [OnDisk EXCEPT !.history = Append(OnDisk.history, resp'[1].entry)]
             /\ req'[1].op = "clearHistory" =>
                   disk'.doc = [OnDisk EXCEPT !.history = <<>>,
                                              !.deletedHistory = OnDisk.deletedHistory \o OnDisk.history]
             /\ (req'[1].op = "restoreLast" /\ OnDisk.deletedHistory # <<>>) =>
                   /\ resp'[1].entry = OnDisk.deletedHistory[Len(OnDisk.deletedHistory)]
                   /\ disk'.doc.history = Append(OnDisk.history, resp'[1].entry)
                   /\ disk'.doc.counter = OnDisk.counter
             /\ (req'[1].op = "deleteOne" /\ req'[1].id \in Ids(OnDisk.history)) =>
                   /\ wrote'[1] >= 1
                   /\ Ids(disk'.doc.history) = Ids(OnDisk.history) \ {req'[1].id}
                   /\ disk'.doc.counter = OnDisk.counter]_vars

\* increment, served while db.data still held the counter Infinity of the
\* request before it, has found null in the file and returned 1.
C16_Witness ==
    /\ req[1] = Request("increment", Absent, 0) /\ pc[1] = "done"
    /\ buf[1].exists /\ buf[1].doc.counter = Null
    /\ resp[1].value = One
    /\ disk = Serialize(data) /\ disk.doc.counter = One
    /\ disk.doc.history # <<>>

\* ---------------------------------------------------------------- answers of overlapping counter requests
\* The counter the handler of slot p computed and passed to db.write(), for
\* a request that ran straight on the document its db.read() loaded.
Computed(p) ==
    CASE req[p].op = "increment" -> AddNum(buf[p].doc.counter, amountOf(req[p].amount))
      [] req[p].op = "decrement" -> SubNum(buf[p].doc.counter, amountOf(req[p].amount))
      [] OTHER -> Zero

\* C17: also when requests overlap, increment, decrement and resetCounter
\* answer the counter that the request itself computed and wrote.
C17_OwnValue ==
    \A p \in Slots :
        (/\ pc[p] = "done"
         /\ req[p].op \in {"increment", "decrement", "resetCounter"}
         /\ buf[p].exists /\ wrote[p] = 1) =>
            resp[p].value = JsonNum(Computed(p))

\* ---------------------------------------------------------------- what a route leaves alone
\* C18: increment, decrement and resetCounter leave both lists as they
\* were; saveSnapshot, deleteOne, clearHistory and restoreLast leave the
\* counter as it was; saveSnapshot leaves deletedHistory as it was.
C18_Frame ==
    [][calls' # calls =>
          /\ req'[1].op \in {"increment", "decrement", "resetCounter"} =>
                /\ Loaded'.history = Loaded.history
                /\ Loaded'.deletedHistory = Loaded.deletedHistory
          /\ req'[1].op \in {"saveSnapshot", "deleteOne", "clearHistory", "restoreLast"} =>
                Loaded'.counter = Loaded.counter
          /\ req'[1].op = "saveSnapshot" => Loaded'.deletedHistory = Loaded.deletedHistory]_vars

\* restoreLast has put back a snapshot of value 1 and the counter is still 0.
C18_Witness ==
    /\ JustDid("restoreLast")
    /\ resp[1].status = 200
    /\ resp[1].entry.value = One
    /\ disk.doc.counter = Zero
    /\ resp[1].entry \in Entries(disk.doc)

\* ---------------------------------------------------------------- the test server against the server
\* The document the test server's next request finds after db.read().
TestLoaded == lowRead(test.disk, test.data)

\* C19: given the same file, requests, uuids and clock readings, the server
\* and the test server answer every request of the shared routes alike and
\* hold the same counter and history after it.
C19_SameBehaviour ==
    /\ resp[1] = test.resp
    /\ Loaded.counter = TestLoaded.counter
    /\ Loaded.history = TestLoaded.history

\* deleteOne has removed one of two entries on both servers; the server
\* holds it in deletedHistory, the test server nowhere.
C19_Witness ==
    /\ req[1].op = "deleteOne" /\ pc[1] = "done" /\ wrote[1] >= 1
    /\ Len(disk.doc.history) = 1
    /\ Len(disk.doc.deletedHistory) = 1
    /\ test.disk.doc.history = disk.doc.history
    /\ test.disk.doc.deletedHistory = <<>>
    /\ test.resp.status = 204

\* ---------------------------------------------------------------- the read-only routes
\* C20: on a document that has a deletedHistory list, getCounter,
\* listHistory and listDeleted call no db.write(), leave the file and the
\* document as they were and answer the stored counter, history and
\* deletedHistory, entry by entry.
C20_ReadOnly ==
    [][(calls' # calls /\ req'[1].op \in ReadOnly /\ Loaded.hasDeleted) =>
          /\ wrote'[1] = 0
          /\ disk' = disk
          /\ Loaded' = Loaded
          /\ resp'[1].status = 200
          /\ req'[1].op = "getCounter" =>
                resp'[1] = Reply(200, "value", Loaded.counter, NoEntry, <<>>)
          /\ req'[1].op = "listHistory" =>
                resp'[1] = Reply(200, "list", Null, NoEntry, Loaded.history)
          /\ req'[1].op = "listDeleted" =>
                resp'[1] = Reply(200, "list", Null, NoEntry, Loaded.deletedHistory)]_vars

\* listDeleted has answered two deleted entries in deletion order.
C20_Witness ==
    /\ req[1].op = "listDeleted" /\ pc[1] = "done" /\ wrote[1] = 0
    /\ Len(resp[1].list) = 2
    /\ resp[1].list[1].id = 2 /\ resp[1].list[2].id = 1
    /\ resp[1].list = disk.doc.deletedHistory

====
